---- MODULE Spec2Model ----
(***************************************************************************)
(* Model of src/src/elfio.c: the ELF patching pipeline                     *)
(*   find_exe_seg_last_section -> expand_section -> export_elf_file        *)
(* over one mapped image (ctx->elf, ctx->size) and one payload.            *)
(*                                                                         *)
(* 64-bit header fields (Elf64_Off, Elf64_Addr, Elf64_Xword) are kept at   *)
(* their width as four 16-bit limbs, least significant first, so that the  *)
(* uint32_t temporaries and uint32_t* aliases of the code truncate exactly *)
(* as they do on the little-endian 64-bit target.                          *)
(***************************************************************************)
EXTENDS Integers, Sequences, FiniteSets, TLC

\* ------------------------------------------------------------------------
\* Bounds of the model
\* ------------------------------------------------------------------------

\* e_phnum of every modelled image
MaxPh == 2

\* e_shnum of every modelled image
MaxSh == 2

\* ------------------------------------------------------------------------
\* Fixed-width arithmetic
\* ------------------------------------------------------------------------

Limb == 2^16

\* uint64_t value of a natural number below 2^31
N64(n) == << n % Limb, n \div Limb, 0, 0 >>

\* uint64_t value h * 2^32 + n, for n below 2^31 and h below 2^16
Hi64(h, n) == << n % Limb, n \div Limb, h, 0 >>

\* the natural number of a uint64_t value below 2^31
Nat64(a) == a[1] + Limb * a[2]

\* whether a uint64_t value is small enough to be a file position of the model
Small(a) == a[3] = 0 /\ a[4] = 0 /\ a[2] < 2^15

\* a + b on uint64_t / size_t (wraps mod 2^64)
Add64(a, b) ==
    LET s1 == a[1] + b[1]
        s2 == a[2] + b[2] + (s1 \div Limb)
        s3 == a[3] + b[3] + (s2 \div Limb)
        s4 == a[4] + b[4] + (s3 \div Limb)
    IN  << s1 % Limb, s2 % Limb, s3 % Limb, s4 % Limb >>

\* conversion to uint32_t, then back to a 64-bit operand (zero extension)
U32(a) == << a[1], a[2], 0, 0 >>

\* a < b on unsigned 64-bit operands
Lt64(a, b) ==
    \/ a[4] < b[4]
    \/ a[4] = b[4] /\ a[3] < b[3]
    \/ a[4] = b[4] /\ a[3] = b[3] /\ a[2] < b[2]
    \/ a[4] = b[4] /\ a[3] = b[3] /\ a[2] = b[2] /\ a[1] < b[1]

\* a store through a uint32_t* that aliases a 64-bit little-endian field:
\* the low four bytes are replaced, the high four bytes stay
Store32(field, v) == << v[1], v[2], field[3], field[4] >>

\* byte k (0..7) of a 64-bit little-endian field
ByteOf(a, k) ==
    LET l == a[(k \div 2) + 1]
    IN  IF k % 2 = 0 THEN l % 256 ELSE l \div 256

\* ------------------------------------------------------------------------
\* Program constants
\* ------------------------------------------------------------------------

\* getpagesize()
PageSize == 4096

\* PF_X of <elf.h>
PF_X == 1

\* sizeof(Elf64_Ehdr), sizeof(Elf64_Phdr), sizeof(Elf64_Shdr)
EhdrSize == 64
PhentSize == 56
ShentSize == 64

\* the null struct shinfo *: no section (sections are numbered from 1)
NULL == [sec |-> 0, seg |-> 0, slackspace |-> 0]

\* p_flags & PF_X
IsExec(p) == (p.p_flags \div PF_X) % 2 = 1

\* ------------------------------------------------------------------------
\* The state
\* ------------------------------------------------------------------------

VARIABLES
    orig,      \* the input file as load_elf mapped it (never written)
    ctx,       \* drow_ctx_t: size and the header fields overlaid on ctx->elf
    payload,   \* payload_t: its size; its bytes are PayloadByte
    sinfo,     \* struct shinfo * returned by find_exe_seg_last_section
    pinfo,     \* struct patchinfo filled by expand_section
    out,       \* the destination file: the chunks written so far, in order
    created,   \* whether open(O_CREAT|O_TRUNC) has created the destination
    padsize,   \* export_elf_file's padsize
    rv,        \* export_elf_file's return value, "none" until it returns
    pc         \* the position of the run

vars == << orig, ctx, payload, sinfo, pinfo, out, created, padsize, rv, pc >>

\* ------------------------------------------------------------------------
\* find_exe_seg_last_section
\* ------------------------------------------------------------------------

\* segment_end = phdr[i].p_vaddr + phdr[i].p_memsz, stored in a uint32_t
SegmentEnd(p) == U32(Add64(p.p_vaddr, p.p_memsz))

\* shtable[j].sh_addr + shtable[j].sh_size == segment_end, the left side
\* a 64-bit sum and segment_end promoted from uint32_t
EndMatches(s, p) == Add64(s.sh_addr, s.sh_size) = SegmentEnd(p)

\* the descriptor malloc'ed on a match: offset and size point into
\* shtable[j] (kept here as the index j), slackspace is one page; seg
\* records the segment of the match for the properties below
Descriptor(i, j) == [sec |-> j, seg |-> i, slackspace |-> PageSize]

RECURSIVE ScanSections(_, _, _, _)
\* the inner loop over j, from section j on, with the descriptor so far
ScanSections(c, i, j, acc) ==
    IF j > Len(c.sh) THEN acc
    ELSE ScanSections(c, i, j + 1,
            IF EndMatches(c.sh[j], c.ph[i]) THEN Descriptor(i, j) ELSE acc)

RECURSIVE ScanSegments(_, _, _)
\* the outer loop over i, from segment i on, with the descriptor so far
ScanSegments(c, i, acc) ==
    IF i > Len(c.ph) THEN acc
    ELSE ScanSegments(c, i + 1,
            IF IsExec(c.ph[i]) THEN ScanSections(c, i, 1, acc) ELSE acc)

\* the value returned (allocation of the descriptor is taken to succeed)
FindExeSegLastSection(c) == ScanSegments(c, 1, NULL)

\* ------------------------------------------------------------------------
\* expand_section
\* ------------------------------------------------------------------------

\* size = *sinfo->size: a uint32_t read of the low half of sh_size
ReadSize(c, s) == U32(c.sh[s.sec].sh_size)

\* pinfo->base = *sinfo->offset + size, base being a uint32_t
PatchBase(c, s) == U32(Add64(U32(c.sh[s.sec].sh_offset), ReadSize(c, s)))

\* *sinfo->size = size + sinfo->slackspace, a uint32_t store
GrowSection(c, s) ==
    [c EXCEPT !.sh[s.sec].sh_size =
        Store32(@, Add64(ReadSize(c, s), N64(s.slackspace)))]

\* one pass of the section header loop: newoff is a uint32_t
ShiftShdr(e, base, adjust) ==
    IF Lt64(e.sh_offset, base) THEN e
    ELSE [e EXCEPT !.sh_offset = U32(Add64(@, N64(adjust)))]

\* ShiftPhdr with the growth of the sizes nested under the offset test
ShiftPhdrNested(p, base, psize) ==
    IF Lt64(base, p.p_offset)
    THEN IF IsExec(p)
         THEN [p EXCEPT !.p_offset = Add64(@, N64(psize)),
                        !.p_filesz = Add64(@, N64(psize)),
                        !.p_memsz  = Add64(@, N64(psize))]
         ELSE [p EXCEPT !.p_offset = Add64(@, N64(psize))]
    ELSE p

\* one pass of the program header loop
ShiftPhdr(p, base, psize) ==
    LET q == IF Lt64(base, p.p_offset)
             THEN [p EXCEPT !.p_offset = Add64(@, N64(psize))]
             ELSE p
    IN  IF IsExec(q)
        THEN [q EXCEPT !.p_filesz = Add64(@, N64(psize)),
                       !.p_memsz  = Add64(@, N64(psize))]
        ELSE q

\* ehdr->e_shoff and ehdr->e_phoff
ShiftEhdrOff(off, base, psize) ==
    IF Lt64(base, off) THEN Add64(off, N64(psize)) ELSE off

\* the image after expand_section, given the patch info it computed
ExpandImage(c, s, base, psize) ==
    LET g == GrowSection(c, s)
    IN  [g EXCEPT
            !.sh = [i \in 1..Len(g.sh) |-> ShiftShdr(g.sh[i], base, PageSize)],
            !.ph = [i \in 1..Len(g.ph) |-> ShiftPhdr(g.ph[i], base, psize)],
            !.e_shoff = ShiftEhdrOff(@, base, psize),
            !.e_phoff = ShiftEhdrOff(@, base, psize)]

\* ------------------------------------------------------------------------
\* The bytes of ctx->elf and of the payload
\* ------------------------------------------------------------------------

\* a file byte that no modelled header field overlays
DataByte(off) == (off * 13 + 5) % 256

\* byte k of payload->data (never zero, to tell it from the pad)
PayloadByte(k) == ((k * 7 + 3) % 251) + 1

\* byte r of program header p, read through the Elf64_Phdr overlay;
\* off is its place in the buffer
PhdrByte(p, r, off) ==
    IF r \in 4..7 THEN ByteOf(N64(p.p_flags), r - 4)
    ELSE IF r \in 8..15 THEN ByteOf(p.p_offset, r - 8)
    ELSE IF r \in 16..23 THEN ByteOf(p.p_vaddr, r - 16)
    ELSE IF r \in 32..39 THEN ByteOf(p.p_filesz, r - 32)
    ELSE IF r \in 40..47 THEN ByteOf(p.p_memsz, r - 40)
    ELSE DataByte(off)

\* byte r of section header e, read through the Elf64_Shdr overlay
ShdrByte(e, r, off) ==
    IF r \in 16..23 THEN ByteOf(e.sh_addr, r - 16)
    ELSE IF r \in 24..31 THEN ByteOf(e.sh_offset, r - 24)
    ELSE IF r \in 32..39 THEN ByteOf(e.sh_size, r - 32)
    ELSE DataByte(off)

\* byte off of the buffer ctx->elf holding header values c.  The tables
\* lie where the input's e_phoff and e_shoff (o) put them: the code
\* rewrites the two fields, it does not move the tables in the buffer.
\* Past ctx->size the last mapped page reads as zero.
ElfByte(c, o, off) ==
    LET phpos == Nat64(o.e_phoff)
        shpos == Nat64(o.e_shoff)
    IN  IF off >= c.size THEN 0
        ELSE IF off \in 32..39 THEN ByteOf(c.e_phoff, off - 32)
        ELSE IF off \in 40..47 THEN ByteOf(c.e_shoff, off - 40)
        ELSE IF off >= phpos /\ off < phpos + PhentSize * Len(c.ph)
        THEN PhdrByte(c.ph[((off - phpos) \div PhentSize) + 1],
                      (off - phpos) % PhentSize, off)
        ELSE IF off >= shpos /\ off < shpos + ShentSize * Len(c.sh)
        THEN ShdrByte(c.sh[((off - shpos) \div ShentSize) + 1],
                      (off - shpos) % ShentSize, off)
        ELSE DataByte(off)

\* the length mmap maps for a file of n bytes: whole pages
MapLen(n) == ((n + PageSize - 1) \div PageSize) * PageSize

\* ------------------------------------------------------------------------
\* The destination file
\* ------------------------------------------------------------------------

\* one write(fd, src + at, len) that reached the file
Chunk(src, at, len) == [src |-> src, at |-> at, len |-> len]

RECURSIVE OutLen(_)
\* the length of the destination file
OutLen(o) == IF o = << >> THEN 0 ELSE Head(o).len + OutLen(Tail(o))

\* ChunkByte with the pad buffer left as malloc returned it (no memset)
ChunkByteNoMemset(ch, k) ==
    IF ch.src = "elf" THEN ElfByte(ctx, orig, ch.at + k)
    ELSE IF ch.src = "payload" THEN PayloadByte(ch.at + k)
    ELSE DataByte(k)

\* byte k of a chunk, read from the buffer the write was given (the image
\* is not written again once expand_section has returned)
ChunkByte(ch, k) ==
    IF ch.src = "elf" THEN ElfByte(ctx, orig, ch.at + k)
    ELSE IF ch.src = "payload" THEN PayloadByte(ch.at + k)
    ELSE 0

RECURSIVE OutByte(_, _)
\* byte k of the destination file o, k < OutLen(o)
OutByte(o, k) ==
    IF k < Head(o).len THEN ChunkByte(Head(o), k)
    ELSE OutByte(Tail(o), k - Head(o).len)

\* what write(fd, buf, count) may return: count, -1, or a short count
WriteResults(count) ==
    {count, -1} \cup (IF count > 1 THEN {count \div 2} ELSE {})

\* the file after a write that returned n
Written(o, src, at, n) == IF n > 0 THEN Append(o, Chunk(src, at, n)) ELSE o

\* ------------------------------------------------------------------------
\* The input images
\* ------------------------------------------------------------------------

Shdr(addr, off, size) == [sh_addr |-> addr, sh_offset |-> off, sh_size |-> size]

Phdr(flags, off, vaddr, filesz, memsz) ==
    [p_flags |-> flags, p_offset |-> off, p_vaddr |-> vaddr,
     p_filesz |-> filesz, p_memsz |-> memsz]

\* file positions of the modelled images: the ELF header, room for either
\* table below the section data, the first section, the end of that section
\* (the usual patch boundary), room for either table above it
PhLow == EhdrSize
ShLow == PhLow + PhentSize * MaxPh
DataStart == ShLow + ShentSize * MaxSh
TextEnd == DataStart + 32
Above == TextEnd + 64
FileSize == Above + PhentSize * MaxPh + ShentSize * MaxSh + 40

\* load addresses: the first segment, a second segment, and 4 GiB
VBase == 2^22
VData == 2^22 + 2^21

\* section headers: .text-like, ending where the first segment ends; an
\* empty section at that end; a section further on, ending past the end of
\* the file (as SHT_NOBITS does); the null section; .text linked above 4 GiB
SecText == Shdr(N64(VBase + DataStart), N64(DataStart), N64(32))
SecEmpty == Shdr(N64(VBase + TextEnd), N64(TextEnd), N64(0))
SecData == Shdr(N64(VData + Above), N64(Above), N64(FileSize))
SecNull == Shdr(N64(0), N64(0), N64(0))
SecHigh == Shdr(Hi64(1, VBase + DataStart), N64(DataStart), N64(32))

\* program headers: the executable segment ending at TextEnd; a data
\* segment starting at TextEnd; a second executable segment ending where
\* SecData ends; the executable segment linked above 4 GiB
SegText == Phdr(5, N64(0), N64(VBase), N64(TextEnd), N64(TextEnd))
SegData == Phdr(6, N64(TextEnd), N64(VData + TextEnd), N64(64), N64(64 + FileSize))
SegExec2 == Phdr(1, N64(Above), N64(VData + Above), N64(16), N64(FileSize))
SegHigh == Phdr(5, N64(0), Hi64(1, VBase), N64(TextEnd), N64(TextEnd))

\* where the two tables lie: both below the data, or one of them at
\* TextEnd or above it
Layouts ==
    { << PhLow, ShLow >>, << PhLow, TextEnd >>, << PhLow, Above >>,
      << TextEnd, ShLow >>, << Above, ShLow >> }

Image(lay, ph, sh) ==
    [size |-> FileSize, e_phoff |-> N64(lay[1]), e_shoff |-> N64(lay[2]),
     ph |-> ph, sh |-> sh]

\* the images of the header properties
Images ==
    { Image(lay, ph, sh) :
        lay \in Layouts,
        ph \in [1..MaxPh -> {SegText, SegData, SegExec2, SegHigh}],
        sh \in [1..MaxSh -> {SecText, SecEmpty, SecData, SecNull, SecHigh}] }

\* the images of the export properties: one executable segment first,
\* data segments after it; with both tables below the data, also the file
\* that ends at TextEnd (nothing follows the patch boundary)
ExportImages ==
    LET full == { Image(lay, [i \in 1..MaxPh |-> IF i = 1 THEN SegText ELSE SegData], sh) :
                    lay \in Layouts,
                    sh \in [1..MaxSh -> {SecText, SecEmpty, SecNull}] }
    IN  full \cup { [im EXCEPT !.size = TextEnd] :
                      im \in { f \in full : f.e_phoff = N64(PhLow) /\ f.e_shoff = N64(ShLow) } }

\* payload sizes: empty, one byte, a page less one, a page, a page and one
PayloadSizes == {0, 1, PageSize - 1, PageSize, PageSize + 1}

\* ------------------------------------------------------------------------
\* export_elf_file: its arithmetic
\* ------------------------------------------------------------------------

\* a - b on size_t (wraps mod 2^64)
Sub64(a, b) ==
    LET d1 == a[1] - b[1]
        d2 == a[2] - b[2] - (IF d1 < 0 THEN 1 ELSE 0)
        d3 == a[3] - b[3] - (IF d2 < 0 THEN 1 ELSE 0)
        d4 == a[4] - b[4] - (IF d3 < 0 THEN 1 ELSE 0)
    IN  << d1 % Limb, d2 % Limb, d3 % Limb, d4 % Limb >>

\* PadSize padding a whole page whatever the payload's size
PadSizeWholePage(pi, pl) == N64(pi.size)

\* padsize = pinfo->size - payload->size, both size_t
PadSize(pi, pl) == Sub64(N64(pi.size), N64(pl.size))

\* what malloc(padsize) may return: NULL for a request no allocation can
\* satisfy, NULL or a pointer for a request of 0 bytes, a pointer otherwise
MallocResults(n) ==
    IF ~Small(n) THEN {"NULL"}
    ELSE IF Nat64(n) = 0 THEN {"NULL", "ptr"}
    ELSE {"ptr"}

\* what write(fd, ctx->elf, pinfo->base) may return: the mapping is
\* MapLen(ctx->size) bytes long, a longer read cannot complete
FirstResults(c, pi) ==
    IF Small(pi.base) /\ Nat64(pi.base) <= MapLen(c.size)
    THEN WriteResults(Nat64(pi.base))
    ELSE {-1, MapLen(c.size)}

\* remaining = ctx->size - pinfo->base is zero
NoRemaining(c, pi) == pi.base = N64(c.size)

\* what write(fd, ctx->elf + pinfo->base, remaining) may return; with base
\* past ctx->size the difference wraps to a count no write completes
RestResults(c, pi) ==
    IF Small(pi.base) /\ Nat64(pi.base) < c.size
    THEN WriteResults(c.size - Nat64(pi.base))
    ELSE {-1}

\* ------------------------------------------------------------------------
\* The run
\* ------------------------------------------------------------------------

InitRest ==
    /\ ctx = orig
    /\ sinfo = NULL
    /\ pinfo = [base |-> N64(0), size |-> 0]
    /\ out = << >>
    /\ created = FALSE
    /\ padsize = N64(0)
    /\ rv = "none"
    /\ pc = "find"

Init ==
    /\ orig \in Images
    /\ payload \in {[size |-> 1], [size |-> PageSize]}
    /\ InitRest

InitExport ==
    /\ orig \in ExportImages
    /\ payload \in {[size |-> n] : n \in PayloadSizes}
    /\ InitRest

\* find_exe_seg_last_section(ctx); the run stops when it returns NULL
Find ==
    /\ pc = "find"
    /\ sinfo' = FindExeSegLastSection(ctx)
    /\ pc' = IF sinfo' = NULL THEN "abort" ELSE "expand"
    /\ UNCHANGED << orig, ctx, payload, pinfo, out, created, padsize, rv >>

\* expand_section(ctx, sinfo, &pinfo)
Expand ==
    /\ pc = "expand"
    /\ pinfo' = [base |-> PatchBase(ctx, sinfo), size |-> PageSize]
    /\ ctx' = ExpandImage(ctx, sinfo, pinfo'.base, pinfo'.size)
    /\ pc' = "export"
    /\ UNCHANGED << orig, payload, sinfo, out, created, padsize, rv >>

\* export_elf_file: open(outfile, O_RDWR|O_CREAT|O_TRUNC, 0777)
ExportOpen ==
    /\ pc = "export"
    /\ \E ok \in BOOLEAN :
          /\ created' = ok
          /\ pc' = IF ok THEN "write_first" ELSE "done"
          /\ rv' = IF ok THEN rv ELSE "false"
    /\ UNCHANGED << orig, ctx, payload, sinfo, pinfo, out, padsize >>

\* export_elf_file: the first part of the ELF
WriteFirst ==
    /\ pc = "write_first"
    /\ \E n \in FirstResults(ctx, pinfo) :
          /\ out' = Written(out, "elf", 0, n)
          /\ pc' = IF N64(n) = pinfo.base /\ n >= 0 THEN "write_payload" ELSE "done"
          /\ rv' = IF N64(n) = pinfo.base /\ n >= 0 THEN rv ELSE "false"
    /\ UNCHANGED << orig, ctx, payload, sinfo, pinfo, created, padsize >>

\* export_elf_file: the payload
WritePayload ==
    /\ pc = "write_payload"
    /\ \E n \in WriteResults(payload.size) :
          /\ out' = Written(out, "payload", 0, n)
          /\ pc' = IF n = payload.size THEN "alloc_pad" ELSE "done"
          /\ rv' = IF n = payload.size THEN rv ELSE "false"
    /\ UNCHANGED << orig, ctx, payload, sinfo, pinfo, created, padsize >>

\* export_elf_file: padsize and the pad buffer
AllocPad ==
    /\ pc = "alloc_pad"
    /\ padsize' = PadSize(pinfo, payload)
    /\ \E r \in MallocResults(padsize') :
          /\ pc' = IF r = "NULL" THEN "done" ELSE "write_pad"
          /\ rv' = IF r = "NULL" THEN "false" ELSE rv
    /\ UNCHANGED << orig, ctx, payload, sinfo, pinfo, out, created >>

\* export_elf_file: the pad
WritePad ==
    /\ pc = "write_pad"
    /\ \E n \in WriteResults(Nat64(padsize)) :
          /\ out' = Written(out, "pad", 0, n)
          /\ pc' = IF n = Nat64(padsize) THEN "write_rest" ELSE "done"
          /\ rv' = IF n = Nat64(padsize) THEN rv ELSE "false"
    /\ UNCHANGED << orig, ctx, payload, sinfo, pinfo, created, padsize >>

\* WriteRest writing from ctx->elf instead of ctx->elf + pinfo->base
WriteRestFromStart ==
    /\ pc = "write_rest"
    /\ IF NoRemaining(ctx, pinfo)
       THEN /\ rv' = "true"
            /\ out' = out
       ELSE \E n \in RestResults(ctx, pinfo) :
               /\ out' = Written(out, "elf", 0, n)
               /\ rv' = IF Small(pinfo.base) /\ n = ctx.size - Nat64(pinfo.base)
                        THEN "true" ELSE "false"
    /\ pc' = "done"
    /\ UNCHANGED << orig, ctx, payload, sinfo, pinfo, created, padsize >>

\* export_elf_file: the rest of the ELF, and the return
WriteRest ==
    /\ pc = "write_rest"
    /\ IF NoRemaining(ctx, pinfo)
       THEN /\ rv' = "true"
            /\ out' = out
       ELSE \E n \in RestResults(ctx, pinfo) :
               /\ out' = Written(out, "elf", Nat64(pinfo.base), n)
               /\ rv' = IF Small(pinfo.base) /\ n = ctx.size - Nat64(pinfo.base)
                        THEN "true" ELSE "false"
    /\ pc' = "done"
    /\ UNCHANGED << orig, ctx, payload, sinfo, pinfo, created, padsize >>

Next ==
    \/ Find
    \/ Expand
    \/ ExportOpen
    \/ WriteFirst
    \/ WritePayload
    \/ AllocPad
    \/ WritePad
    \/ WriteRest

Spec == Init /\ [][Next]_vars

SpecExport == InitExport /\ [][Next]_vars

\* ------------------------------------------------------------------------
\* Properties
\* ------------------------------------------------------------------------

\* expand_section has run
Expanded == pc \notin {"find", "expand", "abort"}

\* the target section's input header
InTarget == orig.sh[sinfo.sec]

\* base as the specification defines it: input sh_offset + input sh_size
InBase == Add64(InTarget.sh_offset, InTarget.sh_size)

OnePage == N64(PageSize)

\* a file-offset field moved as the specification says: by one page when
\* it was at or beyond base, not at all when it was below
Relocated(in, now) ==
    IF Lt64(in, InBase) THEN now = in ELSE now = Add64(in, OnePage)

\* C1: after expand_section every file-offset field (each sh_offset, each
\* p_offset, e_shoff, e_phoff) that was >= base in the input is the input
\* value plus one page, and every one that was < base is unchanged;
\* a field equal to base counts as >= base
C1_OffsetsRelocated ==
    Expanded =>
        /\ \A j \in 1..Len(orig.sh) :
              Relocated(orig.sh[j].sh_offset, ctx.sh[j].sh_offset)
        /\ \A i \in 1..Len(orig.ph) :
              Relocated(orig.ph[i].p_offset, ctx.ph[i].p_offset)
        /\ Relocated(orig.e_shoff, ctx.e_shoff)
        /\ Relocated(orig.e_phoff, ctx.e_phoff)

\* byte off of the input file
InputByte(off) == ElfByte(orig, orig, off)

\* the patch boundary as a file position
BasePos == Nat64(pinfo.base)

\* C2 as stated: in the exported file bytes [0, base) equal bytes [0, base)
\* of the original input and bytes [base + page, end) equal bytes
\* [base, input length) of the original input
C2_OutputEqualsInput ==
    rv = "true" =>
        /\ \A k \in 0..(BasePos - 1) : OutByte(out, k) = InputByte(k)
        /\ \A k \in (BasePos + PageSize)..(OutLen(out) - 1) :
              OutByte(out, k) = InputByte(k - PageSize)

\* whether file position off lies in a header field expand_section may
\* rewrite: e_phoff, e_shoff, p_offset, p_filesz, p_memsz, sh_offset, sh_size
InRewrittenField(off) ==
    LET phpos == Nat64(orig.e_phoff)
        shpos == Nat64(orig.e_shoff)
    IN  \/ off \in 32..47
        \/ /\ off >= phpos /\ off < phpos + PhentSize * Len(orig.ph)
           /\ ((off - phpos) % PhentSize) \in (8..15) \cup (32..47)
        \/ /\ off >= shpos /\ off < shpos + ShentSize * Len(orig.sh)
           /\ ((off - shpos) % ShentSize) \in 24..39

\* the exported byte k comes from image position p: it is the byte
\* expand_section left there, which is the input's byte unless p lies in a
\* rewritten header field
FromImage(k, p) ==
    /\ OutByte(out, k) = ElfByte(ctx, orig, p)
    /\ InRewrittenField(p) \/ OutByte(out, k) = InputByte(p)

\* C2 amended: bytes [0, base) and [base + page, end) of the exported file
\* equal bytes [0, base) and [base, input length) of the image as
\* expand_section left it: the input's bytes outside the rewritten header
\* fields, the relocated field values inside them
C2_OutputEqualsRelocatedImage ==
    rv = "true" =>
        /\ OutLen(out) >= BasePos + PageSize
        /\ \A k \in 0..(BasePos - 1) : FromImage(k, k)
        /\ \A k \in (BasePos + PageSize)..(OutLen(out) - 1) :
              FromImage(k, k - PageSize)

\* an export that wrote a rewritten header field on each side of the page
C2_Witness ==
    /\ rv = "true"
    /\ \E k \in 0..(BasePos - 1) : OutByte(out, k) # InputByte(k)
    /\ \E k \in (BasePos + PageSize)..(OutLen(out) - 1) :
          OutByte(out, k) # InputByte(k - PageSize)

\* C3: with a payload larger than one page export_elf_file returns failure
\* before any byte has been written to the destination
C3_OversizeFailsBeforeWriting ==
    payload.size > PageSize =>
        /\ OutLen(out) = 0
        /\ rv # "none" => rv = "false"

\* the image has exactly one executable segment and exactly one section
\* ending at that segment's end
OneSite ==
    /\ Cardinality({ i \in 1..Len(orig.ph) : IsExec(orig.ph[i]) }) = 1
    /\ \A i \in 1..Len(orig.ph) :
          IsExec(orig.ph[i]) =>
             Cardinality({ j \in 1..Len(orig.sh) :
                Add64(orig.sh[j].sh_addr, orig.sh[j].sh_size)
                  = Add64(orig.ph[i].p_vaddr, orig.ph[i].p_memsz) }) = 1

\* C4: for an image with one executable segment and one section ending at
\* its end and a payload of at most one page, when every write succeeds the
\* exported file is exactly one page longer than the input
C4_OutputLength ==
    (OneSite /\ payload.size <= PageSize /\ rv = "true") =>
        OutLen(out) = orig.size + PageSize

\* a complete export of such an image with all four regions non-empty
C4_Witness ==
    /\ OneSite /\ rv = "true"
    /\ payload.size > 0 /\ payload.size < PageSize
    /\ Len(out) = 4

\* C5: in the exported file bytes [base, base + payload.size) are the
\* payload bytes in order and bytes [base + payload.size, base + page) are
\* zero, for every payload of at most one page
C5_InsertedPage ==
    (rv = "true" /\ payload.size <= PageSize) =>
        /\ OutLen(out) >= BasePos + PageSize
        /\ \A k \in 0..(payload.size - 1) :
              OutByte(out, BasePos + k) = PayloadByte(k)
        /\ \A k \in payload.size..(PageSize - 1) :
              OutByte(out, BasePos + k) = 0

\* a complete export with a payload and a pad, both non-empty
C5_Witness ==
    /\ rv = "true"
    /\ payload.size = PageSize - 1
    /\ OutByte(out, BasePos + PageSize - 2) = PayloadByte(PageSize - 2)
    /\ OutByte(out, BasePos + PageSize - 1) = 0

\* C6: after expand_section every executable segment's p_filesz and p_memsz
\* are the input values plus one page, wherever its p_offset lies; those of
\* every other program header are unchanged
C6_SegmentSizes ==
    Expanded =>
        \A i \in 1..Len(orig.ph) :
            IF IsExec(orig.ph[i])
            THEN /\ ctx.ph[i].p_filesz = Add64(orig.ph[i].p_filesz, OnePage)
                 /\ ctx.ph[i].p_memsz = Add64(orig.ph[i].p_memsz, OnePage)
            ELSE /\ ctx.ph[i].p_filesz = orig.ph[i].p_filesz
                 /\ ctx.ph[i].p_memsz = orig.ph[i].p_memsz

\* expand_section ran on an image with an executable segment below base
\* and an executable segment above it
C6_Witness ==
    /\ Expanded
    /\ \E i \in 1..Len(orig.ph) :
          IsExec(orig.ph[i]) /\ Lt64(orig.ph[i].p_offset, pinfo.base)
    /\ \E i \in 1..Len(orig.ph) :
          IsExec(orig.ph[i]) /\ Lt64(pinfo.base, orig.ph[i].p_offset)

\* section j ends where segment i ends, both sums over the 64-bit values
EndsTogether(c, i, j) ==
    Add64(c.sh[j].sh_addr, c.sh[j].sh_size)
        = Add64(c.ph[i].p_vaddr, c.ph[i].p_memsz)

\* the (executable segment, section) pairs with equal end addresses
Sites(c) ==
    { << i, j >> \in (1..Len(c.ph)) \X (1..Len(c.sh)) :
        IsExec(c.ph[i]) /\ EndsTogether(c, i, j) }

\* C7: find_exe_seg_last_section returns NULL exactly when no executable
\* segment and section have equal end addresses (as 64-bit sums), and a
\* descriptor it returns names a section ending where an executable
\* segment ends
C7_NullIffNoSite ==
    pc # "find" =>
        /\ (sinfo = NULL) <=> (Sites(orig) = {})
        /\ sinfo # NULL => \E p \in Sites(orig) : p[2] = sinfo.sec

\* C8: the target section absorbs the insertion: base is its input
\* sh_offset + sh_size, its sh_size grows by one page, its sh_offset stays,
\* also when its input sh_size is 0
C8_TargetGrows ==
    Expanded =>
        /\ pinfo.base = InBase
        /\ ctx.sh[sinfo.sec].sh_size = Add64(InTarget.sh_size, OnePage)
        /\ ctx.sh[sinfo.sec].sh_offset = InTarget.sh_offset

\* the site processed last: the highest-indexed executable segment that
\* has a site, and its highest-indexed section
LastSite(c) ==
    CHOOSE p \in Sites(c) :
        \A q \in Sites(c) : q[1] < p[1] \/ (q[1] = p[1] /\ q[2] <= p[2])

\* C9: when several (executable segment, section) pairs have equal end
\* addresses the descriptor returned is that of the pair processed last,
\* and its slack is one page
C9_LastSiteWins ==
    (pc # "find" /\ Cardinality(Sites(orig)) > 1) =>
        /\ sinfo # NULL
        /\ sinfo.sec = LastSite(orig)[2]
        /\ sinfo.slackspace = PageSize

\* C10: after expand_section the chosen section still ends where the
\* executable segment it was matched against ends
C10_StillEndsTogether ==
    Expanded => EndsTogether(ctx, sinfo.seg, sinfo.sec)

====
